---- MODULE Spec2Model ----
(***************************************************************************)
(* Model of scripts/gen-operators.py: the generator that walks the vips    *)
(* operation class hierarchy and prints Go bindings for every operation.   *)
(* Text is modelled as TLA+ strings: Len, \o and SubSeq act on them as     *)
(* Python's len, + and slicing do.                                         *)
(***************************************************************************)
EXTENDS Integers, Sequences, FiniteSets, TLC

VARIABLES
  classes,    \* the vips type registry: class id -> operation class (read-only)
  clock,      \* wall clock, seconds since January 01, 2018 12:00AM
  today,      \* module global `today` (line 20)
  generated,  \* module global `generated` (line 265): the keys of the dict
  methods,    \* generate_file's local `methods`
  skipped,    \* generate_file's local `skipped`
  attempted,  \* history: names of the classes gen_operation was called on, in call order
  stdout,     \* what the process printed
  prev,       \* history: the earlier process runs on the same registry (stdout, clock, today)
  pc,         \* position of the script
  cls,        \* the class handed to gen_operation (SpecOp)
  locals,     \* gen_operation's locals when it returns or raises (SpecOp)
  ret,        \* gen_operation's result (SpecOp)
  name,       \* argument of a name transformation (SpecNames)
  fn,         \* which name transformation was called (SpecNames)
  result      \* its return value (SpecNames)

vars == <<classes, clock, today, generated, methods, skipped, attempted, stdout,
          prev, pc, cls, locals, ret, name, fn, result>>

walkVars == <<classes, clock, today, generated, methods, skipped, attempted, stdout, prev>>
opVars == <<cls, locals, ret>>
nameVars == <<name, fn, result>>

None == "<none>"

(***************************************************************************)
(* Python string primitives.                                               *)
(***************************************************************************)
Char(s, i) == SubSeq(s, i, i)

LowerCase == "abcdefghijklmnopqrstuvwxyz"
UpperCase == "ABCDEFGHIJKLMNOPQRSTUVWXYZ"

\* the characters of s, as a set
Chars(s) == { Char(s, i) : i \in 1..Len(s) }

\* position of character c in s
IndexOf(c, s) == CHOOSE i \in 1..Len(s) : Char(s, i) = c

to_upper == [c \in Chars(LowerCase) |-> Char(UpperCase, IndexOf(c, LowerCase))]
to_lower == [c \in Chars(UpperCase) |-> Char(LowerCase, IndexOf(c, UpperCase))]

islower(c) == c \in DOMAIN to_upper
isupper(c) == c \in DOMAIN to_lower
isspace(c) == c \in {" ", "\t", "\n", "\r", "\f"}
upper(c) == IF islower(c) THEN to_upper[c] ELSE c
lower(c) == IF isupper(c) THEN to_lower[c] ELSE c

\* str.title(): a cased character is upper-cased when the character before it
\* is uncased (or it is the first), lower-cased otherwise
RECURSIVE title_from(_, _, _)
title_from(s, i, prev_cased) ==
  IF i > Len(s) THEN ""
  ELSE LET c == Char(s, i)
           cased == islower(c) \/ isupper(c)
           t == IF ~cased THEN c ELSE IF prev_cased THEN lower(c) ELSE upper(c)
       IN t \o title_from(s, i + 1, cased)

title(s) == title_from(s, 1, FALSE)

\* sep.join(list)
RECURSIVE join(_, _)
join(sep, list) ==
  IF Len(list) = 0 THEN ""
  ELSE IF Len(list) = 1 THEN list[1]
  ELSE list[1] \o sep \o join(sep, Tail(list))

\* s.split(sep) for a one-character separator
RECURSIVE split_from(_, _, _, _)
split_from(s, sep, i, cur) ==
  IF i > Len(s) THEN <<cur>>
  ELSE IF Char(s, i) = sep THEN <<cur>> \o split_from(s, sep, i + 1, "")
  ELSE split_from(s, sep, i + 1, cur \o Char(s, i))

split(s, sep) == split_from(s, sep, 1, "")

\* re.sub(pat, repl, s) for a one-character literal pattern
RECURSIVE re_sub(_, _, _)
re_sub(pat, repl, s) ==
  IF Len(s) = 0 THEN ""
  ELSE (IF Head(s) = pat THEN repl ELSE Head(s)) \o re_sub(pat, repl, Tail(s))

(***************************************************************************)
(* Name transformations, lines 121-135.                                    *)
(***************************************************************************)
cppize(n) == re_sub("-", "_", n)

RECURSIVE strip_title(_)
strip_title(s) ==
  IF Len(s) = 0 THEN ""
  ELSE (IF ~isspace(Head(s)) /\ Head(s) # "_" THEN Head(s) ELSE "") \o strip_title(Tail(s))

upper_camelcase(n) ==
  IF n = "" THEN ""
  ELSE strip_title(title(cppize(n)))

\* a slip that camel-cases the tail segment by segment instead of joined
lower_camelcase_per_segment(n) ==
  LET parts == split(cppize(n), "_")
  IN parts[1] \o upper_camelcase(join("_", Tail(parts)))

lower_camelcase(n) ==
  LET parts == split(cppize(n), "_")
  IN parts[1] \o upper_camelcase(join("", Tail(parts)))

(***************************************************************************)
(* The GObject type system, as far as the script asks it (lines 16-18).    *)
(* type_is_a(t, is_a) is g_type_is_a: t is is_a or descends from it.       *)
(***************************************************************************)
vips_type_image == "VipsImage"
vips_type_operation == "VipsOperation"
param_enum == "GParamEnum"

type_parent ==
  ( "VipsImage" :> "VipsObject" @@ "VipsInterpolate" :> "VipsObject"
    @@ "VipsOperation" :> "VipsObject" @@ "VipsObject" :> "GObject"
    @@ "GParamEnum" :> "GParam" @@ "GParamInt" :> "GParam"
    @@ "GParamDouble" :> "GParam" @@ "GParamObject" :> "GParam"
    @@ "GParamBoxed" :> "GParam" )

RECURSIVE type_is_a(_, _)
type_is_a(t, is_a) ==
  IF t = is_a THEN TRUE
  ELSE IF t \in DOMAIN type_parent THEN type_is_a(type_parent[t], is_a)
  ELSE FALSE

(***************************************************************************)
(* The lookup tables, lines 41-74.                                         *)
(***************************************************************************)
go_types ==
  ( "gboolean" :> "bool"
    @@ "gchararray" :> "string"
    @@ "gdouble" :> "float64"
    @@ "gint" :> "int"
    @@ "VipsBlob" :> "*Blob"
    @@ "VipsImage" :> "*C.VipsImage"
    @@ "VipsInterpolate" :> "*Interpolator"
    @@ "VipsOperationMath" :> "OperationMath"
    @@ "VipsOperationMath2" :> "OperationMath2"
    @@ "VipsOperationRound" :> "OperationRound"
    @@ "VipsOperationRelational" :> "OperationRelational"
    @@ "VipsOperationBoolean" :> "OperationBoolean"
    @@ "VipsOperationComplex" :> "OperationComplex"
    @@ "VipsOperationComplex2" :> "OperationComplex2"
    @@ "VipsOperationComplexget" :> "OperationComplexGet"
    @@ "VipsDirection" :> "Direction"
    @@ "VipsAngle" :> "Angle"
    @@ "VipsAngle45" :> "Angle45"
    @@ "VipsCoding" :> "Coding"
    @@ "VipsInterpretation" :> "Interpretation"
    @@ "VipsBandFormat" :> "BandFormat"
    @@ "VipsOperationMorphology" :> "OperationMorphology" )

options_method_names ==
  ( "gboolean" :> "Bool"
    @@ "gchararray" :> "String"
    @@ "gdouble" :> "Double"
    @@ "gint" :> "Int"
    @@ "VipsArrayDouble" :> "DoubleArray"
    @@ "VipsArrayImage" :> "ImageArray"
    @@ "VipsImage" :> "Image" )

\* A call either returns a value or raises; str(KeyError(k)) is k in quotes.
Return(v) == [raised |-> FALSE, value |-> v]
Raise(e) == [raised |-> TRUE, value |-> e]
KeyError(k) == "'" \o k \o "'"

lookup(table, k) ==
  IF k \in DOMAIN table THEN Return(table[k]) ELSE Raise(KeyError(k))

get_type(prop) == lookup(go_types, prop.value_type)

get_options_method_name(prop) ==
  IF type_is_a(param_enum, prop.pspec) THEN Return("Int")
  ELSE lookup(options_method_names, prop.value_type)

(***************************************************************************)
(* find_required, lines 88-102.  An operation's props are a sequence of    *)
(* records [name, value_type, pspec, flags, priority]; flags is the set of *)
(* the argument's flag bits.                                               *)
(***************************************************************************)
Prop(op, n) == op.props[CHOOSE i \in 1..Len(op.props) : op.props[i].name = n]
get_argument_flags(op, n) == Prop(op, n).flags
get_argument_priority(op, n) == Prop(op, n).priority

\* a slip that sorts by descending priority
priority_sort_descending(op, a, b) ==
  get_argument_priority(op, b.name) - get_argument_priority(op, a.name)

priority_sort(op, a, b) ==
  get_argument_priority(op, a.name) - get_argument_priority(op, b.name)

\* list.sort(cmp) is stable: an element goes behind every element that does
\* not compare greater than it
RECURSIVE insert_sorted(_, _, _)
insert_sorted(op, sorted, x) ==
  IF Len(sorted) = 0 THEN <<x>>
  ELSE IF priority_sort(op, Head(sorted), x) > 0 THEN <<x>> \o sorted
  ELSE <<Head(sorted)>> \o insert_sorted(op, Tail(sorted), x)

RECURSIVE sort_by_priority(_, _, _)
sort_by_priority(op, list, acc) ==
  IF Len(list) = 0 THEN acc
  ELSE sort_by_priority(op, Tail(list), insert_sorted(op, acc, Head(list)))

\* lines 91-95: the prop is kept
qualifies(op, prop) ==
  LET flags == get_argument_flags(op, prop.name)
  IN /\ "REQUIRED" \in flags
     /\ "DEPRECATED" \notin flags

RECURSIVE required_loop(_, _)
required_loop(op, i) ==
  IF i > Len(op.props) THEN <<>>
  ELSE (IF qualifies(op, op.props[i]) THEN <<op.props[i]>> ELSE <<>>)
         \o required_loop(op, i + 1)

find_required(op) == sort_by_priority(op, required_loop(op, 1), <<>>)

(***************************************************************************)
(* The templates, lines 151-184.                                           *)
(***************************************************************************)
func_template(d) ==
  "\n// " \o d.func_name \o " executes the '" \o d.op_name \o "' operation\n"
  \o "func " \o d.func_name \o "(" \o d.args \o ") (" \o d.return_types \o ") {\n"
  \o "  " \o d.decls \o "\n"
  \o "  options = append(options,\n"
  \o "    " \o d.input_options \o "\n"
  \o "    " \o d.output_options \o "\n"
  \o "  )\n"
  \o "  incOpCounter(\"" \o d.op_name \o "\")\n"
  \o "  err = vipsCall(\"" \o d.op_name \o "\", options)\n"
  \o "  return " \o d.return_values \o "\n"
  \o "}\n"

stream_template(d) ==
  "\n// " \o d.func_name \o " executes the '" \o d.op_name \o "' operation\n"
  \o "func (in *ImageRef) " \o d.func_name \o "(" \o d.method_args \o ") error {\n"
  \o "  out, err := " \o d.func_name \o "(in.image, " \o d.call_values \o ")\n"
  \o "  if err != nil {\n"
  \o "    return err\n"
  \o "  }\n"
  \o "  in.SetImage(out)\n"
  \o "  return nil\n"
  \o "}\n"

emit_func(d) == func_template(d)
emit_method(d) == stream_template(d)

(***************************************************************************)
(* gen_operation, lines 187-261.                                           *)
(***************************************************************************)
\* lines 194-204
locals_start ==
  [ args |-> <<>>, decls |-> <<>>, return_types |-> <<>>, return_values |-> <<>>,
    input_options |-> <<>>, output_options |-> <<>>, method_args |-> <<>>,
    call_values |-> <<>>, images_in |-> 0, images_out |-> 0, exc |-> None ]

\* a slip that keeps an image input out of the function's parameters
gen_prop_input_image_implicit(L, n, prop_type, method_name, prop) ==
  LET image == type_is_a(vips_type_image, prop.value_type)
      arg_name == IF type_is_a(param_enum, prop.pspec) THEN "int(" \o n \o ")" ELSE n
  IN [ L EXCEPT
         !.images_in = IF image THEN @ + 1 ELSE @,
         !.call_values = IF image THEN @ ELSE Append(@, n),
         !.method_args = IF image THEN @ ELSE Append(@, n \o " " \o prop_type),
         !.args = IF image THEN @ ELSE Append(@, n \o " " \o prop_type),
         !.input_options =
            Append(@, "Input" \o method_name \o "(\"" \o prop.name \o "\", " \o arg_name \o "),") ]

\* lines 222-232: an input argument
gen_prop_input(L, n, prop_type, method_name, prop) ==
  LET image == type_is_a(vips_type_image, prop.value_type)
      arg_name == IF type_is_a(param_enum, prop.pspec) THEN "int(" \o n \o ")" ELSE n
  IN [ L EXCEPT
         !.images_in = IF image THEN @ + 1 ELSE @,
         !.call_values = IF image THEN @ ELSE Append(@, n),
         !.method_args = IF image THEN @ ELSE Append(@, n \o " " \o prop_type),
         !.args = Append(@, n \o " " \o prop_type),
         !.input_options =
            Append(@, "Input" \o method_name \o "(\"" \o prop.name \o "\", " \o arg_name \o "),") ]

\* lines 213-221: an output argument
gen_prop_output(L, n, prop_type, method_name, prop) ==
  LET image == type_is_a(vips_type_image, prop.value_type)
  IN [ L EXCEPT
         !.images_out = IF image THEN @ + 1 ELSE @,
         !.method_args = IF image THEN @ ELSE Append(@, n \o " *" \o prop_type),
         !.return_types = Append(@, prop_type),
         !.decls = Append(@, "var " \o n \o " " \o prop_type),
         !.return_values = Append(@, n),
         !.output_options =
            Append(@, "Output" \o method_name \o "(\"" \o prop.name \o "\", &" \o n \o "),") ]

\* lines 207-232: the loop over the qualifying props; a raise ends it
RECURSIVE gen_loop(_, _, _, _)
gen_loop(op, all_props, i, L) ==
  IF i > Len(all_props) THEN L
  ELSE
    LET prop == all_props[i]
        n == lower_camelcase(prop.name)
        prop_type == get_type(prop)
        flags == get_argument_flags(op, prop.name)
        method_name == get_options_method_name(prop)
    IN IF prop_type.raised THEN [L EXCEPT !.exc = prop_type.value]
       ELSE IF method_name.raised THEN [L EXCEPT !.exc = method_name.value]
       ELSE gen_loop(op, all_props, i + 1,
              IF "OUTPUT" \in flags
              THEN gen_prop_output(L, n, prop_type.value, method_name.value, prop)
              ELSE gen_prop_input(L, n, prop_type.value, method_name.value, prop))

\* lines 234-239
gen_trailer(L) ==
  [ L EXCEPT
      !.args = Append(@, "options ...*Option"),
      !.decls = Append(@, "var err error"),
      !.return_types = Append(@, "error"),
      !.return_values = Append(@, "err"),
      !.method_args = Append(@, "options ...*Option"),
      !.call_values = Append(@, "options...") ]

\* the locals at line 241, or at the raise
gen_locals(c) ==
  LET L == gen_loop(c, find_required(c), 1, locals_start)
  IN IF L.exc # None THEN L ELSE gen_trailer(L)

\* a slip that emits the method for any operation with an image on both sides
has_method_any_image(L) == L.images_in >= 1 /\ L.images_out >= 1

\* line 256
has_method(L) == L.images_in = 1 /\ L.images_out = 1

\* lines 243-259: the dict the templates are filled from
gen_dict(c, L) ==
  LET d == [ op_name |-> c.nickname,
             func_name |-> upper_camelcase(c.nickname),
             args |-> join(", ", L.args),
             decls |-> join("\n\t", L.decls),
             input_options |-> join("\n\t\t", L.input_options),
             output_options |-> join("\n\t\t", L.output_options),
             return_types |-> join(", ", L.return_types),
             return_values |-> join(", ", L.return_values) ]
  IN IF has_method(L)
     THEN d @@ [ method_args |-> join(", ", L.method_args),
                 call_values |-> join(", ", L.call_values) ]
     ELSE d

\* lines 241-261: the list funcs
gen_funcs(c, L) ==
  LET d == gen_dict(c, L)
  IN <<emit_func(d)>> \o (IF has_method(L) THEN <<emit_method(d)>> ELSE <<>>)

gen_operation(c) ==
  LET L == gen_locals(c)
  IN IF L.exc # None THEN Raise(L.exc)
     ELSE Return(join("\n", gen_funcs(c, L)))

(***************************************************************************)
(* find_class_methods, lines 264-285.  A walk returns its two lists, the   *)
(* dict `generated` as it leaves it, and the classes it called             *)
(* gen_operation on.                                                       *)
(***************************************************************************)
Walked(m, s, g, a) == [methods |-> m, skipped |-> s, generated |-> g, attempted |-> a]

\* a slip that marks the nickname before generating, so a failure marks it too
visit_class_mark_before(c, gen) ==
  IF ~c.abstract /\ c.nickname \notin gen
  THEN LET r == gen_operation(c)
       IN IF r.raised
          THEN Walked(<<>>, <<"// Unsupported: " \o c.nickname \o ": " \o r.value>>,
                      gen \cup {c.nickname}, <<c.name>>)
          ELSE Walked(<<r.value>>, <<>>, gen \cup {c.nickname}, <<c.name>>)
  ELSE Walked(<<>>, <<>>, gen, <<>>)

\* a slip that never consults `generated`
visit_class_no_dedupe(c, gen) ==
  IF ~c.abstract
  THEN LET r == gen_operation(c)
       IN IF r.raised
          THEN Walked(<<>>, <<"// Unsupported: " \o c.nickname \o ": " \o r.value>>,
                      gen, <<c.name>>)
          ELSE Walked(<<r.value>>, <<>>, gen \cup {c.nickname}, <<c.name>>)
  ELSE Walked(<<>>, <<>>, gen, <<>>)

\* lines 269-279: the class itself
visit_class(c, gen) ==
  IF ~c.abstract /\ c.nickname \notin gen
  THEN LET r == gen_operation(c)
       IN IF r.raised
          THEN Walked(<<>>, <<"// Unsupported: " \o c.nickname \o ": " \o r.value>>,
                      gen, <<c.name>>)
          ELSE Walked(<<r.value>>, <<>>, gen \cup {c.nickname}, <<c.name>>)
  ELSE Walked(<<>>, <<>>, gen, <<>>)

RECURSIVE find_class_methods(_, _, _)
RECURSIVE walk_children(_, _, _, _)

\* lines 280-284: the loop over cls.children, from child number i on
walk_children(reg, children, i, acc) ==
  IF i > Len(children) THEN acc
  ELSE LET w == find_class_methods(reg, children[i], acc.generated)
       IN walk_children(reg, children, i + 1,
            Walked(acc.methods \o w.methods, acc.skipped \o w.skipped,
                   w.generated, acc.attempted \o w.attempted))

\* a slip that returns from the except clause, leaving the children unwalked
find_class_methods_stop_at_failure(reg, id, gen) ==
  LET own == visit_class(reg[id], gen)
  IN IF Len(own.skipped) > 0 THEN own
     ELSE walk_children(reg, reg[id].children, 1, own)

find_class_methods(reg, id, gen) ==
  walk_children(reg, reg[id].children, 1, visit_class(reg[id], gen))

(***************************************************************************)
(* list.sort() on strings: bytewise order.  Ascii lists the characters the  *)
(* generated text is written in, in the order of their codes.              *)
(***************************************************************************)
Ascii ==
  "\t\n\r !\"#$%&'()*+,-./0123456789:;<=>?@ABCDEFGHIJKLMNOPQRSTUVWXYZ[\\]^_abcdefghijklmnopqrstuvwxyz{|}~"

code == [c \in Chars(Ascii) |-> IndexOf(c, Ascii)]
ord(c) == code[c]

\* the comparison at the first position where a and b differ, from i on
RECURSIVE cmp_from(_, _, _)
cmp_from(a, b, i) ==
  IF i > Len(a) THEN -1
  ELSE IF i > Len(b) THEN 1
  ELSE IF Char(a, i) = Char(b, i) THEN cmp_from(a, b, i + 1)
  ELSE ord(Char(a, i)) - ord(Char(b, i))

str_cmp(a, b) == IF a = b THEN 0 ELSE cmp_from(a, b, 1)

RECURSIVE insert_str(_, _)
insert_str(sorted, x) ==
  IF Len(sorted) = 0 THEN <<x>>
  ELSE IF str_cmp(Head(sorted), x) > 0 THEN <<x>> \o sorted
  ELSE <<Head(sorted)>> \o insert_str(Tail(sorted), x)

RECURSIVE sort_from(_, _)
sort_from(list, acc) ==
  IF Len(list) = 0 THEN acc
  ELSE sort_from(Tail(list), insert_str(acc, Head(list)))

sort(list) == sort_from(list, <<>>)

(***************************************************************************)
(* today and preamble, lines 20-39.  The clock counts seconds from         *)
(* midnight, January 01, 2018, and stays within January.                   *)
(***************************************************************************)
Digits == "0123456789"
Pad2(n) == Char(Digits, (n \div 10) + 1) \o Char(Digits, (n % 10) + 1)

\* a slip that prints the seconds too: "%I:%M:%S%p on %B %d, %Y"
strftime_with_seconds(t) ==
  LET day == t \div 86400
      hour == (t % 86400) \div 3600
      minute == (t % 3600) \div 60
      hour12 == ((hour + 11) % 12) + 1
  IN Pad2(hour12) \o ":" \o Pad2(minute) \o ":" \o Pad2(t % 60)
       \o (IF hour < 12 THEN "AM" ELSE "PM")
       \o " on January " \o Pad2(day + 1) \o ", 2018"

\* strftime("%I:%M%p on %B %d, %Y")
strftime(t) ==
  LET day == t \div 86400
      hour == (t % 86400) \div 3600
      minute == (t % 3600) \div 60
      hour12 == ((hour + 11) % 12) + 1
  IN Pad2(hour12) \o ":" \o Pad2(minute) \o (IF hour < 12 THEN "AM" ELSE "PM")
       \o " on January " \o Pad2(day + 1) \o ", 2018"

preamble(tod) ==
  "package vips\n"
  \o "\n"
  \o "//golint:ignore\n"
  \o "\n"
  \o "/***\n"
  \o " * NOTE: This file is autogenerated so you shouldn't modify it.\n"
  \o " * See scripts/gen-operators.py\n"
  \o " *\n"
  \o " * Generated at " \o tod \o "\n"
  \o " */\n"
  \o "\n"
  \o "// #cgo pkg-config: vips\n"
  \o "// #include \"vips/vips.h\"\n"
  \o "import \"C\"\n"
  \o "// See http://www.vips.ecs.soton.ac.uk/supported/current/doc/html/libvips/func-list.html\n"

\* lines 292-295: the text generate_file prints
output_text(tod, m, s) ==
  preamble(tod) \o "\n\n"
  \o (IF Len(s) > 0 THEN join("\n", s) \o "\n\n" ELSE "")
  \o join("\n\n", m)

(***************************************************************************)
(* The registries the walk is checked on: every tree of n classes under    *)
(* the abstract root VipsOperation, every class one of ClassDefs.          *)
(***************************************************************************)
MaxClasses == 4
MaxClassesTwice == 3

ImageIn == [name |-> "in", value_type |-> "VipsImage", pspec |-> "GParamObject",
            flags |-> {"REQUIRED", "INPUT"}, priority |-> 1]
ImageOut == [name |-> "out", value_type |-> "VipsImage", pspec |-> "GParamObject",
             flags |-> {"REQUIRED", "OUTPUT"}, priority |-> 2]
AngleIn == [name |-> "angle", value_type |-> "VipsAngle", pspec |-> "GParamEnum",
            flags |-> {"REQUIRED", "INPUT"}, priority |-> 3]
BackgroundIn == [name |-> "background", value_type |-> "VipsArrayDouble",
                 pspec |-> "GParamBoxed", flags |-> {"REQUIRED", "INPUT"}, priority |-> 3]
DoubleOut == [name |-> "out", value_type |-> "gdouble", pspec |-> "GParamDouble",
              flags |-> {"REQUIRED", "OUTPUT"}, priority |-> 2]
BufferOut == [name |-> "buffer", value_type |-> "VipsBlob", pspec |-> "GParamBoxed",
              flags |-> {"REQUIRED", "OUTPUT"}, priority |-> 2]

ClassDefs ==
  { [abstract |-> TRUE, nickname |-> "conversion", props |-> <<>>],
    [abstract |-> FALSE, nickname |-> "rot", props |-> <<ImageIn, ImageOut, AngleIn>>],
    [abstract |-> FALSE, nickname |-> "rot", props |-> <<ImageIn, ImageOut>>],
    [abstract |-> FALSE, nickname |-> "rot", props |-> <<ImageIn, ImageOut, BackgroundIn>>],
    [abstract |-> FALSE, nickname |-> "avg", props |-> <<ImageIn, DoubleOut>>],
    [abstract |-> FALSE, nickname |-> "jpegsave_buffer", props |-> <<ImageIn, BufferOut>>] }

RECURSIVE ascending(_)
ascending(S) ==
  IF S = {} THEN <<>>
  ELSE LET m == CHOOSE x \in S : \A y \in S : x <= y
       IN <<m>> \o ascending(S \ {m})

Parents(n) == { p \in [2..n -> 1..n] : \A i \in 2..n : p[i] < i }

ClassName(i) == IF i = 1 THEN vips_type_operation ELSE "VipsOp" \o Char(Digits, i + 1)

Registry(n, p, defs) ==
  [ i \in 1..n |->
      LET kids == ascending({j \in 2..n : p[j] = i})
      IN IF i = 1
         THEN [name |-> ClassName(1), abstract |-> TRUE, nickname |-> "operation",
               props |-> <<>>, children |-> kids]
         ELSE [name |-> ClassName(i), abstract |-> defs[i].abstract,
               nickname |-> defs[i].nickname, props |-> defs[i].props,
               children |-> kids] ]

\* the instants the script may be started at: two in one minute, one later
ClockSamples == {0, 59, 46860}

(***************************************************************************)
(* The script as a process: the module is loaded, then generate_file runs  *)
(* (lines 299-300).                                                        *)
(***************************************************************************)
InitProcess ==
  /\ clock = 0
  /\ today = None
  /\ generated = {}
  /\ methods = <<>>
  /\ skipped = <<>>
  /\ attempted = <<>>
  /\ stdout = ""
  /\ prev = <<>>
  /\ pc = "start"
  /\ cls = None /\ locals = None /\ ret = None
  /\ name = None /\ fn = None /\ result = None

InitRegistry(n) ==
  \E p \in Parents(n), defs \in [2..n -> ClassDefs] : classes = Registry(n, p, defs)

Init == InitRegistry(MaxClasses) /\ InitProcess

\* lines 6-39 and 265, run when the interpreter loads the script
ModuleLoad ==
  /\ pc = "start"
  /\ today' = strftime(clock)
  /\ generated' = {}
  /\ pc' = "main"
  /\ UNCHANGED <<classes, clock, methods, skipped, attempted, stdout, prev, opVars, nameVars>>

\* lines 288-296
generate_file ==
  /\ pc = "main"
  /\ LET w == find_class_methods(classes, 1, generated)
         m == sort(w.methods)
         s == sort(w.skipped)
     IN /\ methods' = m
        /\ skipped' = s
        /\ generated' = w.generated
        /\ attempted' = w.attempted
        /\ stdout' = stdout \o output_text(today, m, s) \o "\n"
  /\ pc' = "exit"
  /\ UNCHANGED <<classes, clock, today, prev, opVars, nameVars>>

Next == ModuleLoad \/ generate_file

Spec == Init /\ [][Next]_vars

(***************************************************************************)
(* The script run twice on one registry: time passes before a start, and   *)
(* a finished run is followed by a fresh process.                          *)
(***************************************************************************)
InitTwice == InitRegistry(MaxClassesTwice) /\ InitProcess

Tick ==
  /\ pc = "start"
  /\ \E t \in ClockSamples : t > clock /\ clock' = t
  /\ UNCHANGED <<classes, today, generated, methods, skipped, attempted, stdout, prev,
                 pc, opVars, nameVars>>

\* the process has exited; the script is started again
Rerun ==
  /\ pc = "exit"
  /\ Len(prev) = 0
  /\ prev' = Append(prev, [stdout |-> stdout, clock |-> clock, today |-> today])
  /\ today' = None
  /\ generated' = {}
  /\ methods' = <<>>
  /\ skipped' = <<>>
  /\ attempted' = <<>>
  /\ stdout' = ""
  /\ pc' = "start"
  /\ UNCHANGED <<classes, clock, opVars, nameVars>>

NextTwice == ModuleLoad \/ generate_file \/ Tick \/ Rerun

SpecTwice == InitTwice /\ [][NextTwice]_vars

(***************************************************************************)
(* Vocabulary of the claims about the walk.                                *)
(***************************************************************************)
Ids == DOMAIN classes
Concrete == { c \in Ids : ~classes[c].abstract }
Succeeds(c) == ~gen_operation(classes[c]).raised
UnitOf(c) == gen_operation(classes[c]).value
EntryOf(c) == "// Unsupported: " \o classes[c].nickname \o ": " \o gen_operation(classes[c]).value
IdOf(nm) == CHOOSE c \in Ids : classes[c].name = nm
Nicknames == { classes[c].nickname : c \in Concrete }

\* the path of child positions that leads from the root to class c
ParentOf(c) == CHOOSE q \in Ids : \E k \in 1..Len(classes[q].children) : classes[q].children[k] = c
PositionOf(c) ==
  CHOOSE k \in 1..Len(classes[ParentOf(c)].children) : classes[ParentOf(c)].children[k] = c

RECURSIVE PathTo(_)
PathTo(c) == IF c = 1 THEN <<>> ELSE Append(PathTo(ParentOf(c)), PositionOf(c))

\* depth-first pre-order: an ancestor comes before its descendants, and a
\* subtree before the subtrees of the later siblings
Before(a, b) ==
  LET pa == PathTo(a)
      pb == PathTo(b)
  IN \/ Len(pa) < Len(pb) /\ SubSeq(pb, 1, Len(pa)) = pa
     \/ \E i \in 1..Len(pa) :
          /\ i <= Len(pb)
          /\ SubSeq(pa, 1, i - 1) = SubSeq(pb, 1, i - 1)
          /\ pa[i] < pb[i]

StartsWith(t, prefix) == Len(t) >= Len(prefix) /\ SubSeq(t, 1, Len(prefix)) = prefix

\* the positions in `methods` of the units generated for nickname n
UnitsFor(n) ==
  { i \in 1..Len(methods) :
      StartsWith(methods[i],
        "\n// " \o upper_camelcase(n) \o " executes the '" \o n \o "' operation\n") }

\* the positions in `skipped` of the comments about nickname n
SkippedFor(n) ==
  { i \in 1..Len(skipped) : StartsWith(skipped[i], "// Unsupported: " \o n \o ": ") }

Count(list, x) == Cardinality({ i \in 1..Len(list) : list[i] = x })
AttemptedIds == { IdOf(attempted[i]) : i \in 1..Len(attempted) }
AttemptIndex(c) == CHOOSE i \in 1..Len(attempted) : attempted[i] = classes[c].name
Winners(n) == { c \in Concrete : classes[c].nickname = n /\ Succeeds(c) }
FirstOf(S) == CHOOSE c \in S : \A e \in S : e = c \/ Before(c, e)

\* C1 (as amended): a nickname gets at most one unit; when some class of the
\* nickname generates successfully it gets exactly one, the unit of the first
\* such class in the depth-first walk; classes that fail before it do not count.
C1_FirstSuccessWins ==
  pc = "exit" =>
    /\ \A n \in Nicknames :
         IF Winners(n) = {} THEN UnitsFor(n) = {}
         ELSE /\ Cardinality(UnitsFor(n)) = 1
              /\ \A i \in UnitsFor(n) : methods[i] = UnitOf(FirstOf(Winners(n)))
    /\ \A i \in 1..Len(methods) : \E n \in Nicknames : i \in UnitsFor(n)

\* two synonyms with different units both generate successfully when tried,
\* and a synonym that fails is walked before them
C1_Witness ==
  /\ pc = "exit"
  /\ \E a, b, f \in Concrete :
       /\ classes[a].nickname = classes[b].nickname
       /\ classes[f].nickname = classes[a].nickname
       /\ Succeeds(a) /\ Succeeds(b) /\ ~Succeeds(f)
       /\ UnitOf(a) # UnitOf(b)
       /\ Before(f, a) /\ Before(a, b)
       /\ Count(methods, UnitOf(a)) = 1

\* C1 (as claimed): the single unit of a nickname is that of the class
\* encountered first, whether or not its generation succeeds.
C1_FirstEncounteredWins ==
  pc = "exit" =>
    \A n \in Nicknames :
      LET synonyms == { c \in Concrete : classes[c].nickname = n }
          first == FirstOf(synonyms)
      IN Cardinality(synonyms) > 1 =>
           /\ Cardinality(UnitsFor(n)) = 1
           /\ Succeeds(first)
           /\ \A i \in UnitsFor(n) : methods[i] = UnitOf(first)

\* the classes gen_operation was called on and raised
Failed == { c \in AttemptedIds : ~Succeeds(c) }

\* the registry without operation f: its class is left as an abstract node
Without(f) == [classes EXCEPT ![f].abstract = TRUE]

RemoveAt(list, i) == SubSeq(list, 1, i - 1) \o SubSeq(list, i + 1, Len(list))

\* C2: an operation whose generation raises on a missing table entry does not
\* abort the run: it leaves exactly one "// Unsupported: nickname: error"
\* comment and no unit, and the functions, the other comments and the classes
\* tried are those of the run on the registry without that operation.
C2_FailureIsolated ==
  pc = "exit" =>
    /\ stdout = output_text(today, methods, skipped) \o "\n"
    /\ Len(methods) = Cardinality(AttemptedIds \ Failed)
    /\ \A i \in 1..Len(methods) : \E c \in AttemptedIds \ Failed : methods[i] = UnitOf(c)
    /\ \A f \in Failed :
         LET w == find_class_methods(Without(f), 1, {})
             i == AttemptIndex(f)
         IN /\ Count(skipped, EntryOf(f))
                 = Cardinality({ g \in Failed : EntryOf(g) = EntryOf(f) })
            /\ sort(w.methods) = methods
            /\ w.attempted = RemoveAt(attempted, i)
            /\ Len(w.skipped) = Len(skipped) - 1
            /\ \A e \in { skipped[k] : k \in 1..Len(skipped) } :
                 Count(w.skipped, e) = Count(skipped, e) - (IF e = EntryOf(f) THEN 1 ELSE 0)

\* an operation fails on each table, one has a child and a later synonym that
\* both generate
C2_Witness ==
  /\ pc = "exit"
  /\ \E f, g, child, syn \in AttemptedIds \ {1} :
       /\ f \in Failed /\ g \in Failed
       /\ gen_operation(classes[f]).value = KeyError("VipsArrayDouble")
       /\ gen_operation(classes[g]).value = KeyError("VipsBlob")
       /\ ParentOf(child) = f /\ Succeeds(child)
       /\ Before(f, syn) /\ classes[syn].nickname = classes[f].nickname /\ Succeeds(syn)
       /\ Count(methods, UnitOf(syn)) = 1

\* a concrete class no earlier class of the walk generated the nickname of
ShouldAttempt(c) ==
  /\ c \in Concrete
  /\ ~\E e \in Concrete :
        Before(e, c) /\ classes[e].nickname = classes[c].nickname /\ Succeeds(e)

\* C9: gen_operation is called on exactly the concrete classes whose nickname
\* no earlier class of the walk generated, in depth-first pre-order; an
\* abstract class yields neither a unit nor a comment; whether a class is
\* abstract, a duplicate or failed does not keep its children from being walked.
C9_DepthFirstAttempts ==
  pc = "exit" =>
    /\ AttemptedIds = { c \in Ids : ShouldAttempt(c) }
    /\ \A i, j \in 1..Len(attempted) :
         i < j => Before(IdOf(attempted[i]), IdOf(attempted[j]))
    /\ Len(methods) + Len(skipped) = Len(attempted)
    /\ \A c \in Ids \ Concrete :
         /\ classes[c].name \notin { attempted[i] : i \in 1..Len(attempted) }
         /\ UnitsFor(classes[c].nickname) = {}
         /\ SkippedFor(classes[c].nickname) = {}

\* a class below a failed class is tried before a later sibling of that class,
\* and a class below a duplicate is tried
C9_Witness ==
  /\ pc = "exit"
  /\ \E f, below, sibling \in Ids \ {1} :
       /\ f \in Failed
       /\ ParentOf(below) = f /\ below \in AttemptedIds
       /\ sibling \in AttemptedIds /\ ParentOf(sibling) = ParentOf(f) /\ sibling > f
       /\ AttemptIndex(below) < AttemptIndex(sibling)

\* C10 (as amended): every class tried leaves exactly one entry, a unit or a
\* comment; a nickname has at most one unit; a nickname may have comments as
\* well as a unit, and several comments, all of them from synonyms tried
\* before the class that generated the unit.
C10_SkippedBeforeGenerated ==
  pc = "exit" =>
    /\ Len(methods) + Len(skipped) = Len(attempted)
    /\ \A n \in Nicknames :
         /\ Cardinality(UnitsFor(n)) <= 1
         /\ Cardinality(SkippedFor(n))
              = Cardinality({ f \in Failed : classes[f].nickname = n })
         /\ \A f \in Failed, c \in AttemptedIds \ Failed :
              classes[f].nickname = n /\ classes[c].nickname = n
                => AttemptIndex(f) < AttemptIndex(c)

\* a nickname with two comments and a unit
C10_Witness ==
  /\ pc = "exit"
  /\ \E n \in Nicknames : Cardinality(SkippedFor(n)) = 2 /\ Cardinality(UnitsFor(n)) = 1

\* C10 (as claimed): no nickname has both a comment and a unit, and none has
\* more than one comment.
C10_Partition ==
  pc = "exit" =>
    \A n \in Nicknames :
      /\ ~(SkippedFor(n) # {} /\ UnitsFor(n) # {})
      /\ Cardinality(SkippedFor(n)) <= 1

(***************************************************************************)
(* gen_operation and find_required on their own: the operation is drawn    *)
(* from every list of up to MaxArgs arguments, each of one of ArgKinds     *)
(* and one of Priorities.                                                  *)
(***************************************************************************)
MaxArgs == 3

ArgNames == <<"in", "out", "min-ampl", "x-y-z", "page-height">>
Priorities == {1, 2}

ArgKinds ==
  { [value_type |-> "VipsImage", pspec |-> "GParamObject", flags |-> {"REQUIRED", "INPUT"}],
    [value_type |-> "VipsImage", pspec |-> "GParamObject", flags |-> {"REQUIRED", "OUTPUT"}],
    [value_type |-> "VipsAngle", pspec |-> "GParamEnum", flags |-> {"REQUIRED", "INPUT"}],
    [value_type |-> "gdouble", pspec |-> "GParamDouble", flags |-> {"REQUIRED", "OUTPUT"}],
    [value_type |-> "VipsArrayDouble", pspec |-> "GParamBoxed", flags |-> {"REQUIRED", "INPUT"}],
    [value_type |-> "VipsBlob", pspec |-> "GParamBoxed", flags |-> {"REQUIRED", "OUTPUT"}],
    [value_type |-> "VipsImage", pspec |-> "GParamObject",
     flags |-> {"REQUIRED", "INPUT", "DEPRECATED"}],
    [value_type |-> "gint", pspec |-> "GParamInt", flags |-> {"INPUT"}] }

Props(n, kinds, prios) ==
  [i \in 1..n |->
     [name |-> ArgNames[i], value_type |-> kinds[i].value_type, pspec |-> kinds[i].pspec,
      flags |-> kinds[i].flags, priority |-> prios[i]]]

Operation(pl) ==
  [name |-> "VipsGaussblur", abstract |-> FALSE, nickname |-> "gaussblur", props |-> pl]

InitOp ==
  /\ \E n \in 0..MaxArgs :
       \E kinds \in [1..n -> ArgKinds], prios \in [1..n -> Priorities] :
         cls = Operation(Props(n, kinds, prios))
  /\ locals = None
  /\ ret = None
  /\ pc = "start"
  /\ classes = <<>> /\ clock = 0 /\ today = None /\ generated = {}
  /\ methods = <<>> /\ skipped = <<>> /\ attempted = <<>> /\ stdout = "" /\ prev = <<>>
  /\ name = None /\ fn = None /\ result = None

\* lines 88-102, called on the operation
call_find_required ==
  /\ pc = "start"
  /\ ret' = Return(find_required(cls))
  /\ pc' = "find_required"
  /\ UNCHANGED <<cls, locals, walkVars, nameVars>>

\* lines 187-261, called on the operation
call_gen_operation ==
  /\ pc = "start"
  /\ locals' = gen_locals(cls)
  /\ ret' = gen_operation(cls)
  /\ pc' = "gen_operation"
  /\ UNCHANGED <<cls, walkVars, nameVars>>

NextOp == call_find_required \/ call_gen_operation

SpecOp == InitOp /\ [][NextOp]_vars

(***************************************************************************)
(* Vocabulary of the claims about one operation.                           *)
(***************************************************************************)
Contains(t, sub) == \E i \in 1..(Len(t) - Len(sub) + 1) : SubSeq(t, i, i + Len(sub) - 1) = sub

Generated == pc = "gen_operation" /\ ~ret.raised

\* the positions in cls.props of the qualifying arguments
Qualifying ==
  { i \in 1..Len(cls.props) :
      "REQUIRED" \in cls.props[i].flags /\ "DEPRECATED" \notin cls.props[i].flags }
IsOutput(p) == "OUTPUT" \in p.flags
IsImage(p) == p.value_type = "VipsImage"
ImagesIn == { i \in Qualifying : IsImage(cls.props[i]) /\ ~IsOutput(cls.props[i]) }
ImagesOut == { i \in Qualifying : IsImage(cls.props[i]) /\ IsOutput(cls.props[i]) }
PositionIn(p) == CHOOSE i \in 1..Len(cls.props) : cls.props[i] = p

PrimaryHead ==
  "\n// Gaussblur executes the 'gaussblur' operation\nfunc Gaussblur("
MethodHead ==
  "\n// Gaussblur executes the 'gaussblur' operation\nfunc (in *ImageRef) Gaussblur("

\* C3: a generated operation always has its primary function, and has the
\* ImageRef method exactly when one qualifying input and one qualifying output
\* are images.
C3_MethodIffOneImageEachWay ==
  Generated =>
    /\ StartsWith(ret.value, PrimaryHead)
    /\ Contains(ret.value, MethodHead)
         <=> (Cardinality(ImagesIn) = 1 /\ Cardinality(ImagesOut) = 1)
    /\ (ImagesIn = {} /\ ImagesOut = {}) => ~Contains(ret.value, "ImageRef")

\* two image inputs of which one is deprecated, one image output: the method
\* is there
C3_Witness ==
  /\ Generated
  /\ Cardinality(ImagesIn) = 1 /\ Cardinality(ImagesOut) = 1
  /\ \E i \in 1..Len(cls.props) : i \notin Qualifying /\ IsImage(cls.props[i])
  /\ Contains(ret.value, MethodHead)

\* C4: find_required returns exactly the arguments flagged REQUIRED and not
\* DEPRECATED, by ascending priority, equal priorities in registry order; a
\* required and deprecated argument reaches no option of the generated code.
C4_RequiredSortedStable ==
  /\ pc = "find_required" =>
       LET required == ret.value
       IN /\ Len(required) = Cardinality(Qualifying)
          /\ { required[k] : k \in 1..Len(required) } = { cls.props[i] : i \in Qualifying }
          /\ \A j, k \in 1..Len(required) :
               j < k =>
                 \/ required[j].priority < required[k].priority
                 \/ /\ required[j].priority = required[k].priority
                    /\ PositionIn(required[j]) < PositionIn(required[k])
  /\ Generated =>
       /\ Len(locals.input_options) + Len(locals.output_options) = Cardinality(Qualifying)
       /\ \A i \in 1..Len(cls.props) :
            i \notin Qualifying => ~Contains(ret.value, "(\"" \o cls.props[i].name \o "\",")

\* a deprecated required argument ahead of two arguments of equal priority,
\* with a lower priority behind them
C4_Witness ==
  /\ pc = "find_required"
  /\ Len(cls.props) = 3
  /\ "DEPRECATED" \in cls.props[1].flags /\ "REQUIRED" \in cls.props[1].flags
  /\ {2, 3} \subseteq Qualifying
  /\ cls.props[2].priority = cls.props[3].priority
  /\ ret.value = <<cls.props[2], cls.props[3]>>

\* the parameter of an argument: its name in lower camel case and its Go type
Param(p, pointer) ==
  lower_camelcase(p.name) \o (IF pointer THEN " *" ELSE " ") \o go_types[p.value_type]

\* C7 (as amended): the primary function's parameters are the qualifying
\* inputs, image inputs included, each by value, in qualification order, and
\* then the variadic options; no output is a parameter: the outputs are
\* declared as locals and returned.
C7_ParametersAreTheInputs ==
  Generated =>
    LET required == find_required(cls)
        inputs == SelectSeq(required, LAMBDA p : ~IsOutput(p))
        outputs == SelectSeq(required, LAMBDA p : IsOutput(p))
        params == [k \in 1..Len(inputs) |-> Param(inputs[k], FALSE)]
                    \o <<"options ...*Option">>
    IN /\ locals.args = params
       /\ StartsWith(ret.value, PrimaryHead \o join(", ", params) \o ") (")
       /\ locals.return_values
            = [k \in 1..Len(outputs) |-> lower_camelcase(outputs[k].name)] \o <<"err">>
       /\ locals.decls
            = [k \in 1..Len(outputs) |-> "var " \o Param(outputs[k], FALSE)]
                \o <<"var err error">>

\* an image input, a plain input and a non-image output together
C7_Witness ==
  /\ Generated
  /\ \E i, j, k \in Qualifying :
       /\ IsImage(cls.props[i]) /\ ~IsOutput(cls.props[i])
       /\ ~IsImage(cls.props[j]) /\ ~IsOutput(cls.props[j])
       /\ ~IsImage(cls.props[k]) /\ IsOutput(cls.props[k])

\* C7 (as claimed): image arguments are no parameters, a non-image input is a
\* value parameter and a non-image output a pointer parameter of the primary
\* function, in qualification order, before the variadic options.
C7_PartitionRules ==
  Generated =>
    LET explicit == SelectSeq(find_required(cls), LAMBDA p : ~IsImage(p))
    IN locals.args
         = [k \in 1..Len(explicit) |-> Param(explicit[k], IsOutput(explicit[k]))]
             \o <<"options ...*Option">>

\* the name a parameter declares: the text before its first blank
ParamName(param) == split(param, " ")[1]
Front(list) == SubSeq(list, 1, Len(list) - 1)

\* C8: when the method is emitted every parameter it declares, the variadic
\* options last, is forwarded in order to the primary function.
C8_MethodForwardsItsParameters ==
  (Generated /\ Contains(ret.value, MethodHead)) =>
    /\ [k \in 1..(Len(locals.method_args) - 1) |-> ParamName(locals.method_args[k])]
         = Front(locals.call_values)
    /\ locals.method_args[Len(locals.method_args)] = "options ...*Option"
    /\ locals.call_values[Len(locals.call_values)] = "options..."

(***************************************************************************)
(* The claim about two runs.                                               *)
(***************************************************************************)
SecondRunDone == pc = "exit" /\ Len(prev) = 1

\* what a run printed behind its header block
Body(out, tod) == SubSeq(out, Len(preamble(tod)) + 1, Len(out))

\* C6 (as amended): two runs on an unchanged registry print the same text
\* behind the header; the header carries the minute the run was started in,
\* so the whole output is byte-identical when both runs start in one minute.
C6_SameBodySameMinute ==
  SecondRunDone =>
    LET first == prev[1]
    IN /\ StartsWith(stdout, preamble(today))
       /\ StartsWith(first.stdout, preamble(first.today))
       /\ Body(stdout, today) = Body(first.stdout, first.today)
       /\ (clock \div 60 = first.clock \div 60) => stdout = first.stdout

\* the second run starts later in the same minute, and prints a comment and
\* a unit
C6_Witness ==
  /\ SecondRunDone
  /\ clock = 59 /\ prev[1].clock = 0
  /\ Len(methods) > 0 /\ Len(skipped) > 0
  /\ stdout = prev[1].stdout

\* C6 (as claimed): the two runs print the same bytes, header included.
C6_ByteIdentical == SecondRunDone => stdout = prev[1].stdout

(***************************************************************************)
(* The name transformations on their own: the names are the spec's two     *)
(* examples and every string of up to MaxNameLen characters of             *)
(* NameAlphabet.                                                           *)
(***************************************************************************)
MaxNameLen == 3
NameAlphabet == {"a", "B", "-", "_", " ", "1"}

RECURSIVE NamesOfLength(_)
NamesOfLength(n) ==
  IF n = 0 THEN {""}
  ELSE { s \o c : s \in NamesOfLength(n - 1), c \in NameAlphabet }

NameInputs ==
  {"gaussian-blur", "jpeg-save-buffer"} \cup UNION { NamesOfLength(n) : n \in 0..MaxNameLen }

InitNames ==
  /\ name \in NameInputs
  /\ fn = None
  /\ result = None
  /\ pc = "start"
  /\ classes = <<>> /\ clock = 0 /\ today = None /\ generated = {}
  /\ methods = <<>> /\ skipped = <<>> /\ attempted = <<>> /\ stdout = "" /\ prev = <<>>
  /\ cls = None /\ locals = None /\ ret = None

call_cppize ==
  /\ pc = "start"
  /\ fn' = "cppize"
  /\ result' = cppize(name)
  /\ pc' = "called"
  /\ UNCHANGED <<name, walkVars, opVars>>

call_upper_camelcase ==
  /\ pc = "start"
  /\ fn' = "upper_camelcase"
  /\ result' = upper_camelcase(name)
  /\ pc' = "called"
  /\ UNCHANGED <<name, walkVars, opVars>>

call_lower_camelcase ==
  /\ pc = "start"
  /\ fn' = "lower_camelcase"
  /\ result' = lower_camelcase(name)
  /\ pc' = "called"
  /\ UNCHANGED <<name, walkVars, opVars>>

NextNames == call_cppize \/ call_upper_camelcase \/ call_lower_camelcase

SpecNames == InitNames /\ [][NextNames]_vars

Called(f, n) == pc = "called" /\ fn = f /\ name = n

\* C5 (as amended): cppize("gaussian-blur") = "gaussian_blur",
\* upper_camelcase("gaussian-blur") = "GaussianBlur",
\* lower_camelcase("gaussian-blur") = "gaussianBlur", and
\* lower_camelcase("jpeg-save-buffer") = "jpegSavebuffer": the segments behind
\* the first are joined to "savebuffer" and title-cased as one word.
C5_NameExamples ==
  /\ Called("cppize", "gaussian-blur") => result = "gaussian_blur"
  /\ Called("upper_camelcase", "gaussian-blur") => result = "GaussianBlur"
  /\ Called("lower_camelcase", "gaussian-blur") => result = "gaussianBlur"
  /\ Called("lower_camelcase", "jpeg-save-buffer") => result = "jpegSavebuffer"

C5_Witness == Called("lower_camelcase", "jpeg-save-buffer") /\ result = "jpegSavebuffer"

\* C5 (as claimed): lower_camelcase("jpeg-save-buffer") = "jpegSaveBuffer",
\* beside the three results for "gaussian-blur".
C5_NameExamplesAsListed ==
  /\ Called("cppize", "gaussian-blur") => result = "gaussian_blur"
  /\ Called("upper_camelcase", "gaussian-blur") => result = "GaussianBlur"
  /\ Called("lower_camelcase", "gaussian-blur") => result = "gaussianBlur"
  /\ Called("lower_camelcase", "jpeg-save-buffer") => result = "jpegSaveBuffer"

====
